---- MODULE Spec2Model ----
(***************************************************************************)
(* Model of my_dress_up_jupyter.py: create_new_document and the functions  *)
(* it calls.  A Python str is a sequence of one-character strings, a list  *)
(* is a sequence, a dict is a function whose DOMAIN is its set of keys (a  *)
(* missing key is a KeyError).  The heading table info_to_add is a dict    *)
(* keyed 0..n-1, modelled as a function on 0..n-1.                         *)
(***************************************************************************)
EXTENDS Integers, Sequences, FiniteSets, TLC

VARIABLES document, colors, orig, pc, err, i, info_to_add, new_cells, run

vars == <<document, colors, orig, pc, err, i, info_to_add, new_cells, run>>

\* ------------------------------------------------------------------ bounds
MaxCells == 2
MaxRuns == 2

\* ------------------------------------------------------- string primitives
WordChars ==
    {"a", "b", "c", "d", "e", "f", "g", "h", "i", "j", "k", "l", "m", "n", "o",
     "p", "q", "r", "s", "t", "u", "v", "w", "x", "y", "z", "A", "B", "C", "T",
     "0", "1", "2", "3", "4", "5", "6", "7", "8", "9", "_"}

Whitespace == {" ", "\t", "\n", "\r", "\f"}

DigitChars == <<"0", "1", "2", "3", "4", "5", "6", "7", "8", "9">>

\* str(n) for n >= 0
RECURSIVE str(_)
str(n) ==
    IF n < 10 THEN <<DigitChars[n + 1]>>
    ELSE str(n \div 10) \o <<DigitChars[(n % 10) + 1]>>

\* word.startswith('#')
startswith_hash(word) == Len(word) > 0 /\ word[1] = "#"

\* len(re.findall('#', word))
RECURSIVE count_hash(_)
count_hash(word) ==
    IF word = <<>> THEN 0
    ELSE (IF Head(word) = "#" THEN 1 ELSE 0) + count_hash(Tail(word))

\* word[k:]
slice_from(word, k) ==
    IF k >= Len(word) THEN <<>> ELSE SubSeq(word, k + 1, Len(word))

\* title.rstrip()
RECURSIVE rstrip(_)
rstrip(s) ==
    IF s = <<>> THEN <<>>
    ELSE IF s[Len(s)] \in Whitespace THEN rstrip(SubSeq(s, 1, Len(s) - 1))
    ELSE s

\* s.replace(' ', '_')
replace_space(s) == [k \in 1..Len(s) |-> IF s[k] = " " THEN "_" ELSE s[k]]

\* '#' * n, '\t' * n
repeat(ch, n) == [k \in 1..n |-> ch]

\* The pattern ((?:^|\W)<literal>(?:$|\W)) tried at 0-based offset p of s:
\* the length of the match, or -1.  Alternatives are tried in order.
match_with_prefix(s, lit, p, pre) ==
    LET q == p + pre + Len(lit) IN
    IF q <= Len(s) /\ SubSeq(s, p + pre + 1, q) = lit
    THEN IF q = Len(s) \/ (q = Len(s) - 1 /\ s[q + 1] = "\n") THEN pre + Len(lit)
         ELSE IF s[q + 1] \notin WordChars THEN pre + Len(lit) + 1
         ELSE -1
    ELSE -1

match_at(s, lit, p) ==
    LET viaStart == IF p = 0 THEN match_with_prefix(s, lit, p, 0) ELSE -1
        viaNonWord == IF p < Len(s) /\ s[p + 1] \notin WordChars
                      THEN match_with_prefix(s, lit, p, 1) ELSE -1
    IN IF viaStart >= 0 THEN viaStart ELSE viaNonWord

\* re.sub(term, r'(#\1)', s) from offset p on
RECURSIVE re_sub(_, _, _)
re_sub(s, lit, p) ==
    IF p >= Len(s) THEN <<>>
    ELSE LET m == match_at(s, lit, p) IN
         IF m > 0
         THEN <<"(", "#">> \o SubSeq(s, p + 1, p + m) \o <<")">> \o re_sub(s, lit, p + m)
         ELSE <<s[p + 1]>> \o re_sub(s, lit, p + 1)

\* ------------------------------------------------------------- the program
term_i == <<"<", "a", " ", "c", "l", "a", "s", "s", "=", "\"", "a", "n", "c", "h", "o", "r", "\"", " ", "i", "d", "=", "\"">>
term_f == <<"\"", ">", "<", "/", "a", ">", "\n">>
span_i == <<"<", "s", "p", "a", "n", " ", "s", "t", "y", "l", "e", "=", "\"", "c", "o", "l", "o", "r", ":", " ">>
span_m == <<"\"", ">">>
span_f == <<"<", "/", "s", "p", "a", "n", ">">>
\* the header without its leading blank
contents_header_flush == <<"#", " ", "T", "a", "b", "l", "e", " ", "o", "f", " ", "C", "o", "n", "t", "e", "n", "t", "s", "\n">>

contents_header == <<" ", "#", " ", "T", "a", "b", "l", "e", " ", "o", "f", " ", "C", "o", "n", "t", "e", "n", "t", "s", "\n">>

\* len(d) of a dict
dict_len(d) == Cardinality(DOMAIN d)

\* `if colors:` -- colors is None, or a list that may be empty
truthy(cs) == cs.present /\ cs.list # <<>>

\* the last color for every deeper level, instead of cycling
maquillate_clamped(title, level, cs) ==
    LET last == Len(cs.list) - 1
        color == cs.list[(IF level > last THEN last ELSE level) + 1]
    IN span_i \o color \o span_m \o title \o span_f

maquillate(title, level, cs) ==
    LET color == cs.list[(level % Len(cs.list)) + 1]
    IN span_i \o color \o span_m \o title \o span_f

\* the heading line written after the anchor instead of over the old line
create_source_anchor_inserting(source, values, cs) ==
    LET title == IF truthy(cs) THEN maquillate(values.title, values.level, cs)
                 ELSE values.title
    IN <<term_i \o values.anchor \o term_f,
         <<"#">> \o repeat("#", values.level) \o <<" ">> \o title>> \o source

create_source_anchor(source, values, cs) ==
    LET anchor == values.anchor
        level == values.level
        title == IF truthy(cs) THEN maquillate(values.title, level, cs)
                 ELSE values.title
        full_term == term_i \o anchor \o term_f
        new_source == <<full_term>> \o source
    IN [new_source EXCEPT ![2] = <<"#">> \o repeat("#", level) \o <<" ">> \o title]

\* one iteration of the loop of extract_info
extract_line(word, titles) ==
    IF startswith_hash(word)
    THEN LET level == count_hash(word) - 1
             title == slice_from(word, level + 2)
             anchor == replace_space(rstrip(title)) \o <<"_">> \o str(dict_len(titles))
         IN titles @@ (dict_len(titles) :>
                [title |-> title, level |-> level, anchor |-> anchor])
    ELSE titles

RECURSIVE extract_from(_, _, _)
extract_from(source, titles, k) ==
    IF k > Len(source) THEN titles
    ELSE extract_from(source, extract_line(source[k], titles), k + 1)

extract_info(source, titles) == extract_from(source, titles, 1)

format_title_index(title_numb, titles) ==
    LET title == titles[title_numb]
        level == repeat("\t", title.level)
        title_format == <<"[">> \o title.title \o <<"]">>
        anchor == re_sub(title.anchor, title.anchor, 0)
    IN level \o <<"+", " ">> \o title_format \o anchor \o <<"\n">>

\* uuid.uuid4().hex[:8]: one of the values the random source can give
generate_corpus_id == {"00c0ffee", "deadbeef"}

generate_contents(info, cell_id) ==
    [cell_type |-> "markdown", id |-> cell_id, metadata |-> {},
     source |-> <<contents_header>> \o
                [k \in 1..dict_len(info) |-> format_title_index(k - 1, info)]]

\* the tests of lines 149 and 154
is_markdown(cell) == cell.cell_type = "markdown"
\* any line of the cell, instead of its first
has_heading_anywhere(source) == \E k \in 1..Len(source) : startswith_hash(source[k])

has_heading(source) == source # <<>> /\ startswith_hash(source[1])

\* ------------------------------------------------------------------ inputs
LineA == <<"#", " ", "a", "\n">>
LineAB == <<"#", "#", " ", "a", " ", "b">>
LineDeep == <<"#", "#", "#", " ", "a", "\n">>
LineSharp == <<"#", " ", "a", "#", "\n">>
LineText == <<"a", "\n">>
LineBare == <<"#", "\n">>
LineTight == <<"#", "a">>

Sources ==
    {<<>>, <<LineA>>, <<LineAB>>, <<LineDeep>>, <<LineSharp>>, <<LineText>>,
     <<LineA, LineAB>>, <<LineA, LineText>>, <<LineText, LineA>>,
     <<LineBare>>, <<LineTight>>, <<LineA, LineA>>, <<LineSharp, LineDeep>>,
     <<LineAB, LineText, LineDeep>>}

Meta == {"collapsed"}

\* the ids the cells of the input carry
CellIds == <<"c1", "c2", "c3", "c4">>

CellsAt(p) ==
    LET cid == CellIds[p] IN
    {[cell_type |-> "markdown", id |-> cid, metadata |-> Meta, source |-> s] : s \in Sources}
    \cup {[cell_type |-> "code", id |-> cid, metadata |-> Meta, source |-> <<LineA>>],
          [cell_type |-> "markdown", id |-> cid, metadata |-> Meta],
          [id |-> cid, metadata |-> Meta, source |-> <<LineA>>]}

RECURSIVE CellLists(_)
CellLists(n) ==
    IF n = 0 THEN {<<>>}
    ELSE LET shorter == CellLists(n - 1) IN
         shorter \cup {Append(cs, c) : cs \in {x \in shorter : Len(x) = n - 1}, c \in CellsAt(n)}

Documents ==
    {[nbformat |-> 4, cells |-> cs] : cs \in CellLists(MaxCells)} \cup {[nbformat |-> 4]}

Red == <<"r", "e", "d">>
Blue == <<"b", "l", "u", "e">>

ColorArgs ==
    {[present |-> FALSE, list |-> <<>>], [present |-> TRUE, list |-> <<>>],
     [present |-> TRUE, list |-> <<Red, Blue>>]}

\* ----------------------------------------------------------------- actions
Init ==
    /\ document \in Documents
    /\ colors \in ColorArgs
    /\ orig = document
    /\ pc = "call"
    /\ err = "none"
    /\ i = 0
    /\ info_to_add = <<>>
    /\ new_cells = <<>>
    /\ run = 1

\* create_new_document, line 129, and the first lines of generate_new_cells
create_new_document ==
    /\ pc = "call"
    /\ IF "cells" \in DOMAIN document
       THEN /\ pc' = "loop"
            /\ err' = err
       ELSE /\ pc' = "raised"
            /\ err' = "KeyError: cells"
    /\ i' = 0
    /\ info_to_add' = <<>>
    /\ new_cells' = <<>>
    /\ UNCHANGED <<document, colors, orig, run>>

\* the cell the loop of generate_new_cells is at
cell == document.cells[i + 1]

InLoop == pc = "loop" /\ i < Len(document.cells)

\* lines 149-151
pass_non_markdown ==
    /\ InLoop
    /\ "cell_type" \in DOMAIN cell
    /\ ~is_markdown(cell)
    /\ new_cells' = Append(new_cells, cell)
    /\ i' = i + 1
    /\ UNCHANGED <<document, colors, orig, pc, err, info_to_add, run>>

\* lines 152-156
pass_no_heading ==
    /\ InLoop
    /\ "cell_type" \in DOMAIN cell
    /\ is_markdown(cell)
    /\ "source" \in DOMAIN cell
    /\ ~has_heading(cell.source)
    /\ new_cells' = Append(new_cells, cell)
    /\ i' = i + 1
    /\ UNCHANGED <<document, colors, orig, pc, err, info_to_add, run>>

\* lines 158-168; new_cell is the very object of the caller's list, so the
\* assignment of line 167 shows in document['cells'] at once
annotate ==
    /\ InLoop
    /\ "cell_type" \in DOMAIN cell
    /\ is_markdown(cell)
    /\ "source" \in DOMAIN cell
    /\ has_heading(cell.source)
    /\ LET info == extract_info(cell.source, info_to_add)
           number == dict_len(info) - 1
       IN /\ info_to_add' = info
          /\ IF number < 0
             THEN /\ new_cells' = Append(new_cells, cell)
                  /\ document' = document
             ELSE LET new_cell ==
                        [cell EXCEPT !.source =
                            create_source_anchor(cell.source, info[number], colors)]
                  IN /\ new_cells' = Append(new_cells, new_cell)
                     /\ document' = [document EXCEPT !.cells[i + 1] = new_cell]
    /\ i' = i + 1
    /\ UNCHANGED <<colors, orig, pc, err, run>>

\* lines 149 and 152: a key the cell does not have
key_error ==
    /\ InLoop
    /\ \/ /\ "cell_type" \notin DOMAIN cell
          /\ err' = "KeyError: cell_type"
       \/ /\ "cell_type" \in DOMAIN cell
          /\ is_markdown(cell)
          /\ "source" \notin DOMAIN cell
          /\ err' = "KeyError: source"
    /\ pc' = "raised"
    /\ UNCHANGED <<document, colors, orig, i, info_to_add, new_cells, run>>

\* lines 169, 131-133
finish ==
    /\ pc = "loop"
    /\ i = Len(document.cells)
    /\ \E cell_id \in generate_corpus_id :
          document' = [document EXCEPT
                          !.cells = <<generate_contents(info_to_add, cell_id)>> \o new_cells]
    /\ pc' = "done"
    /\ UNCHANGED <<colors, orig, err, i, info_to_add, new_cells, run>>

\* the caller hands the returned document to create_new_document again
call_again ==
    /\ pc = "done"
    /\ run < MaxRuns
    /\ orig' = document
    /\ run' = run + 1
    /\ pc' = "call"
    /\ UNCHANGED <<document, colors, err, i, info_to_add, new_cells>>

Next ==
    \/ create_new_document
    \/ pass_non_markdown
    \/ pass_no_heading
    \/ annotate
    \/ key_error
    \/ finish
    \/ call_again

Spec == Init /\ [][Next]_vars

TypeOK == pc \in {"call", "loop", "done", "raised"}

\* ------------------------------------------------- vocabulary of the claims
\* a line that starts with `#`
IsHashLine(w) == w # <<>> /\ w[1] = "#"

\* a markdown cell whose first source line starts with `#`
Qualifying(c) ==
    /\ "cell_type" \in DOMAIN c
    /\ c.cell_type = "markdown"
    /\ "source" \in DOMAIN c
    /\ c.source # <<>>
    /\ IsHashLine(c.source[1])

\* a well-formed cell that is to be handed on untouched
PassedThrough(c) ==
    /\ "cell_type" \in DOMAIN c
    /\ \/ c.cell_type # "markdown"
       \/ /\ "source" \in DOMAIN c
          /\ (c.source = <<>> \/ ~IsHashLine(c.source[1]))

HashLines(source) == SelectSeq(source, IsHashLine)

\* the `#` lines of the qualifying cells among the first n cells, in order
RECURSIVE HeadingLines(_, _)
HeadingLines(cells, n) ==
    IF n = 0 THEN <<>>
    ELSE HeadingLines(cells, n - 1) \o
         (IF Qualifying(cells[n]) THEN HashLines(cells[n].source) ELSE <<>>)

\* the cells of the input the loop has handled so far
Handled == IF pc = "call" THEN 0 ELSE Len(new_cells)

\* the number of leading `#` characters of a line
RECURSIVE LeadingHashes(_)
LeadingHashes(w) ==
    IF w # <<>> /\ Head(w) = "#" THEN 1 + LeadingHashes(Tail(w)) ELSE 0

IsSuffix(t, w) == Len(t) <= Len(w) /\ SubSeq(w, Len(w) - Len(t) + 1, Len(w)) = t
IsPrefix(t, w) == Len(t) <= Len(w) /\ SubSeq(w, 1, Len(t)) = t

RECURSIVE CountChar(_, _)
CountChar(w, ch) ==
    IF w = <<>> THEN 0
    ELSE (IF Head(w) = ch THEN 1 ELSE 0) + CountChar(Tail(w), ch)

AnchorTag(anchor) == term_i \o anchor \o term_f
IsAnchorTag(w) == IsPrefix(term_i, w) /\ IsSuffix(term_f, w)

\* the contents cell that lists no heading
EmptyContents(cell_id) ==
    [cell_type |-> "markdown", id |-> cell_id, metadata |-> {},
     source |-> <<contents_header>>]

\* the entry whose anchor went into handled cell j: the last one of that cell
EntryOf(j) == info_to_add[Len(HeadingLines(orig.cells, j)) - 1]

\* ------------------------------------------------------------------ claims
Returned == pc = "done"
ContentsSource == document.cells[1].source

\* C1: the contents cell's source is the header line and then one line per
\* table entry in ordinal order; each line is `level` tabs, `+ [title](#anchor)`
\* and one terminating newline, with no other newline inside the line.
C1_ContentsLineFormat ==
    Returned =>
        /\ ContentsSource[1] = contents_header
        /\ Len(ContentsSource) = 1 + dict_len(info_to_add)
        /\ \A k \in DOMAIN info_to_add :
              LET e == info_to_add[k]
                  line == ContentsSource[k + 2]
              IN /\ line = repeat("\t", e.level) \o <<"+", " ", "[">> \o e.title
                             \o <<"]", "(", "#">> \o e.anchor \o <<")", "\n">>
                 /\ CountChar(line, "\n") = 1

\* the anchor ids of the tags put into the cells of this run, by cell
InsertedAt(j) ==
    LET tag == new_cells[j].source[1]
    IN SubSeq(tag, Len(term_i) + 1, Len(tag) - Len(term_f))

AnnotatedCells == {j \in 1..Len(orig.cells) : Qualifying(orig.cells[j])}

\* C2: with N qualifying headings the output holds N distinct inserted anchor
\* ids, of the form <slug>_<ordinal>, the ordinals being exactly 0..N-1 and
\* increasing in cell order.
C2_AnchorsCoverOrdinals ==
    Returned =>
        LET N == Len(HeadingLines(orig.cells, Len(orig.cells)))
            inserted == {InsertedAt(j) : j \in AnnotatedCells}
        IN /\ Cardinality(inserted) = N
           /\ \A k \in 0..(N - 1) :
                 \E a \in inserted : IsSuffix(<<"_">> \o str(k), a)
           /\ \A j1, j2 \in AnnotatedCells :
                 j1 < j2 =>
                    \E k1, k2 \in 0..(N - 1) :
                       /\ k1 < k2
                       /\ IsSuffix(<<"_">> \o str(k1), InsertedAt(j1))
                       /\ IsSuffix(<<"_">> \o str(k2), InsertedAt(j2))

\* C3: a cell that is not markdown, or is markdown with an empty source or a
\* first line not starting with `#`, comes out at index i+1 with every field
\* unchanged and adds no entry to the table; a document without markdown
\* cells comes out as its cells behind a contents cell of the header only.
C3_PassThrough ==
    /\ \A j \in 1..Handled :
          PassedThrough(orig.cells[j]) => new_cells[j] = orig.cells[j]
    /\ pc \in {"loop", "done"} =>
          dict_len(info_to_add) = Len(HeadingLines(orig.cells, Handled))
    /\ Returned =>
          /\ \A j \in 1..Len(orig.cells) :
                PassedThrough(orig.cells[j]) => document.cells[j + 1] = orig.cells[j]
          /\ (\A j \in 1..Len(orig.cells) : orig.cells[j].cell_type # "markdown") =>
                \E cell_id \in generate_corpus_id :
                   document.cells = <<EmptyContents(cell_id)>> \o orig.cells

C3_Witness ==
    /\ Returned
    /\ run = 1
    /\ \E j \in 1..Len(orig.cells) :
          /\ orig.cells[j].cell_type = "markdown"
          /\ orig.cells[j].source = <<LineText, LineA>>
    /\ \E j \in 1..Len(orig.cells) : orig.cells[j].cell_type = "code"

\* C4: every recorded heading has level = leading `#` characters minus one and
\* title = the text after the leading `#` run and one space, also when the
\* title text holds `#` characters.
C4_LevelAndTitle ==
    pc \in {"loop", "done"} =>
        \A k \in DOMAIN info_to_add :
            LET w == HeadingLines(orig.cells, Handled)[k + 1]
                lead == LeadingHashes(w)
            IN /\ info_to_add[k].level = lead - 1
               /\ info_to_add[k].title = slice_from(w, lead + 1)

\* a cell that carries an anchor tag of an earlier run as its first line
CarriesAnchor(c) ==
    /\ c.cell_type = "markdown"
    /\ c.source # <<>>
    /\ IsAnchorTag(c.source[1])

\* C5 as stated: the second run annotates again the cells that already carry
\* an anchor tag: a further tag goes into them and their headings go into the
\* new contents cell.
C5_DoubleAnnotation ==
    (Returned /\ run >= 2) =>
        \A j \in 1..Len(orig.cells) :
            CarriesAnchor(orig.cells[j]) =>
                /\ Len(document.cells[j + 1].source) = Len(orig.cells[j].source) + 1
                /\ IsAnchorTag(document.cells[j + 1].source[1])
                /\ Len(ContentsSource) > 1

\* C5 as amended: the second run returns a different document, but only by
\* one more contents cell of the header alone put in front; every cell of the
\* first run's output is handed on unchanged and the table stays empty.
C5_SecondRunOnlyPrepends ==
    (Returned /\ run >= 2) =>
        /\ document # orig
        /\ dict_len(info_to_add) = 0
        /\ \E cell_id \in generate_corpus_id :
              document.cells = <<EmptyContents(cell_id)>> \o orig.cells

C5_Witness ==
    /\ Returned
    /\ run = 2
    /\ \E j \in 1..Len(orig.cells) : CarriesAnchor(orig.cells[j])

\* C6: when the call fails with a lookup error, no cell of the caller's
\* document has been modified, wherever the malformed cell stands.
C6_NoPartialSuccess ==
    pc = "raised" => (err # "none" /\ document = orig)

\* the heading line expected for an entry under the color argument
ColoredTitle(e) ==
    span_i \o colors.list[(e.level % Len(colors.list)) + 1] \o span_m \o e.title \o span_f

\* C7: with a non-empty color list the title of an annotated heading line is
\* wrapped in a span of colors[level mod length(colors)]; with no color list
\* the title is written with no span.
C7_CyclicColoring ==
    \A j \in 1..Handled :
        Qualifying(orig.cells[j]) =>
            LET e == EntryOf(j)
                line == new_cells[j].source[2]
                lead == repeat("#", e.level + 1) \o <<" ">>
            IN /\ (colors.present /\ colors.list # <<>>) => line = lead \o ColoredTitle(e)
               /\ ~colors.present => line = lead \o e.title
               /\ (colors.list = <<Red, Blue>> /\ e.level = 0) => IsPrefix(lead \o span_i \o Red, line)
               /\ (colors.list = <<Red, Blue>> /\ e.level = 1) => IsPrefix(lead \o span_i \o Blue, line)
               /\ (colors.list = <<Red, Blue>> /\ e.level = 2) => IsPrefix(lead \o span_i \o Red, line)

C7_Witness ==
    /\ Returned
    /\ run = 1
    /\ colors.list = <<Red, Blue>>
    /\ \E j \in 1..Len(orig.cells) :
          /\ Qualifying(orig.cells[j])
          /\ EntryOf(j).level = 2
          /\ IsPrefix(<<"#", "#", "#", " ">> \o span_i \o Red, document.cells[j + 1].source[2])

\* C8: a qualifying cell with k lines starting with `#` adds k entries with
\* consecutive ordinals, one per such line in line order, and its source grows
\* by one line: the anchor tag of the last of these entries first, then the
\* old first line overwritten with `#` * (level+1), a space and the title,
\* then the remaining lines unchanged.
C8_OneTagPerCell ==
    \A j \in 1..Handled :
        Qualifying(orig.cells[j]) =>
            LET src == orig.cells[j].source
                lines == HashLines(src)
                k == Len(lines)
                b == Len(HeadingLines(orig.cells, j - 1))
                out == new_cells[j].source
                last == info_to_add[b + k - 1]
                lead == repeat("#", last.level + 1) \o <<" ">>
            IN /\ k >= 1
               /\ b..(b + k - 1) \subseteq DOMAIN info_to_add
               /\ (j = Handled /\ pc \in {"loop", "done"}) => dict_len(info_to_add) = b + k
               /\ \A m \in 0..(k - 1) :
                     /\ IsSuffix(<<"_">> \o str(b + m), info_to_add[b + m].anchor)
                     /\ IsSuffix(info_to_add[b + m].title, lines[m + 1])
               /\ Len(out) = Len(src) + 1
               /\ out[1] = AnchorTag(last.anchor)
               /\ IsPrefix(lead, out[2])
               /\ IsSuffix(last.title \o (IF truthy(colors) THEN span_f ELSE <<>>), out[2])
               /\ ~truthy(colors) => out[2] = lead \o last.title
               /\ \A m \in 3..Len(out) : out[m] = src[m - 1]
               /\ document.cells[j + (IF Returned THEN 1 ELSE 0)].source = out

C8_Witness ==
    /\ Returned
    /\ run = 1
    /\ \E j \in 1..Len(orig.cells) :
          /\ Qualifying(orig.cells[j])
          /\ orig.cells[j].source = <<LineAB, LineText, LineDeep>>
          /\ Len(document.cells[j + 1].source) = 4

\* C9: every anchor a line of the contents cell refers to is the id of an
\* anchor tag in the source of some cell of the returned document.
C9_NoDanglingLink ==
    Returned =>
        \A k \in DOMAIN info_to_add :
            /\ IsSuffix(<<"(", "#">> \o info_to_add[k].anchor \o <<")", "\n">>,
                        ContentsSource[k + 2])
            /\ \E j \in 2..Len(document.cells) :
                  \E m \in 1..Len(document.cells[j].source) :
                      document.cells[j].source[m] = AnchorTag(info_to_add[k].anchor)

\* C10: with no colors an annotated cell's source without its first line is
\* the cell's original source, line for line.
C10_OnlyAnchorLineAdded ==
    (Returned /\ ~truthy(colors)) =>
        \A j \in 1..Len(orig.cells) :
            Qualifying(orig.cells[j]) =>
                Tail(document.cells[j + 1].source) = orig.cells[j].source
====
